---- MODULE Spec2Model ----
(***************************************************************************)
(* Client-side session manager of the discord-python frontend:             *)
(*   - AuthProvider (frontend/src/App.tsx, the provider with validateAuth) *)
(*   - AuthProvider (frontend/src/context/AuthContext.tsx, the provider    *)
(*     whose mount effect settles for one second before it acts)           *)
(*   - Login.handleSubmit and Register.handleSubmit                        *)
(*     (frontend/src/routes/unauthenticated/Login.tsx)                     *)
(*   - RouteGuard and Toast (unnamed/part_001), the routes (part_002)      *)
(* localStorage's "jwt" slot is `store`, React's `user` state is `user`.   *)
(***************************************************************************)
EXTENDS Integers, Sequences, FiniteSets, TLC

\* ------------------------------------------------------------------ bounds
\* Largest `exp` claim (in seconds) a modelled token carries.
MaxExp == 2
\* Number of form submissions that can be awaiting axios.post at once.
MaxSlots == 2

\* Number of requests of the two forms that can be pending at once where
\* the whole page is followed.
MaxAppSlots == 1

\* Number of auto-close timers that can be pending at once.
MaxTimers == 2
\* The clock of the Toast moves in half auto-close durations, this many.
MaxToastSteps == 4

\* ------------------------------------------------------- program constants
\* autoCloseDuration={8000}
AutoCloseDuration == 8000
\* `decodedToken.exp * 1000`: seconds to milliseconds.
MillisPerSecond == 1000
\* `setTimeout(..., 1000)` of the settling mount effect.
SettleDelay == 1000

\* --------------------------------------------------------------- the data
Subjects == {"u1", "u2"}
\* `{ userID: null }`
NullId == "null"

\* A raw token is the string "header.payload.signature". jwtDecode only
\* looks at how many dot-separated parts there are and at whether the second
\* part is base64url-encoded JSON; `sub` and `exp` are that JSON's fields.
Jwt(s, e) == [parts |-> 3, json |-> TRUE, sub |-> s, exp |-> e]
\* "not-a-valid-token": no second part at all.
NotAToken == [parts |-> 1, json |-> FALSE, sub |-> NullId, exp |-> 0]
\* three parts, but the payload is not JSON.
Garbled == [parts |-> 3, json |-> FALSE, sub |-> NullId, exp |-> 0]

GoodTokens == {Jwt(s, e) : s \in Subjects, e \in 1..MaxExp}
BadTokens == {NotAToken, Garbled}
Tokens == GoodTokens \cup BadTokens

\* localStorage.getItem("jwt"): <<>> is null (no item), <<t>> the item.
Slot == {<<>>} \cup {<<t>> : t \in Tokens}

\* Date.now() readings (milliseconds): the start, and for every expiry the
\* last millisecond before it and the expiry instant itself.
Instants ==
  {0} \cup {MillisPerSecond * k - 1 : k \in 1..MaxExp}
      \cup {MillisPerSecond * k : k \in 1..MaxExp}

Slots == 1..MaxSlots
\* A submission whose form has been unmounted since keeps running; it is
\* noted with its slot negated.
AllSlots == Slots \cup {-x : x \in Slots}
Orphaned(S) == {IF x > 0 THEN -x ELSE x : x \in S}
AppSlots == 1..MaxAppSlots
AllAppSlots == AppSlots \cup {-x : x \in AppSlots}
\* The access tokens the server answers with where the whole page is
\* followed: one that decodes and one that does not.
Granted == {Jwt("u1", 1), NotAToken}
TimerIds == 1..MaxTimers
\* colour?: "success" | "error" | "warning" | "info"
Colours == {"success", "error", "warning", "info"}
\* Clock readings used where the Toast's timer matters.
ToastInstants == {k * (AutoCloseDuration \div 2) : k \in 0..MaxToastSteps}
Messages == {"detail", "network"}

VARIABLES
  store,     \* localStorage "jwt": <<>> or <<token>>
  user,      \* AuthProvider's `user.userID`
  now,       \* Date.now()
  pc,        \* the provider's mount effect: "mount" (not run yet),
             \* "settling" (timeout pending), "idle" (done)
  captured,  \* the `jwt` the settling effect read before its timeout
  mountedAt, \* Date.now() when the settling timeout was scheduled
  loading,   \* `loading` state of the settling provider
  inflight,  \* submissions of the login form awaiting axios.post
  error,     \* Login's `error` state: [state, message]
  last,      \* the most recent session operation and what it did
  prev,      \* the session operation before it
  page,      \* the route shown: "login" ("/") or "app" ("/app")
  guard,     \* the RouteGuard instance of the "/app" route
  colour,    \* the `colour` prop of the Toast
  toast,     \* the Toast of the form: its timers and what hid it
  reg        \* Register: its `loading` state and its pending axios.post

vars ==
  <<store, user, now, pc, captured, mountedAt, loading, inflight, error,
    last, prev, page, guard, colour, toast, reg>>

\* --------------------------------------------------------------- the codec
\* jwtDecode(jwt): throws InvalidTokenError when part #2 is missing or is
\* not base64url JSON; otherwise returns the payload's claims.
jwtDecode(t) ==
  IF t.parts >= 2 /\ t.json
  THEN [ok |-> TRUE, sub |-> t.sub, exp |-> t.exp]
  ELSE [ok |-> FALSE, sub |-> NullId, exp |-> 0]

\* ------------------------------------------------- the session operations
\* What one call of a session operation does: the store and the user it
\* leaves, whether it returned ("ok") or threw ("throw"), its return value,
\* the number of setUser calls it made (each hands React a fresh object, so
\* each re-renders the provider and every consumer of its context value),
\* and the store as a consumer reading it at that notification sees it.
Result(st, usr, out, ret, notes, seen) ==
  [store |-> st, user |-> usr, out |-> out, ret |-> ret, notes |-> notes,
   seen |-> seen]

\* login with setUser moved in front of localStorage.setItem.
login_NotifyFirst(jwt) ==
  LET decodedToken == jwtDecode(jwt)
  IN  IF decodedToken.ok
      THEN Result(<<jwt>>, decodedToken.sub, "ok", FALSE, 1, store)
      ELSE Result(store, user, "throw", FALSE, 0, <<>>)

\* login that keeps a credential that is already stored.
login_FirstWins(jwt) ==
  LET written == IF store = <<>> THEN <<jwt>> ELSE store
      decodedToken == jwtDecode(written[1])
  IN  IF decodedToken.ok
      THEN Result(written, decodedToken.sub, "ok", FALSE, 1, written)
      ELSE Result(written, user, "throw", FALSE, 0, <<>>)

\* const login = (jwt) => { localStorage.setItem("jwt", jwt);
\*   const decodedToken = jwtDecode(jwt); setUser({ userID: decodedToken.sub }); }
login(jwt) ==
  LET written == <<jwt>>
      decodedToken == jwtDecode(jwt)
  IN  IF decodedToken.ok
      THEN Result(written, decodedToken.sub, "ok", FALSE, 1, written)
      ELSE Result(written, user, "throw", FALSE, 0, <<>>)

\* logout that forgets localStorage.removeItem.
logout_KeepStore == Result(store, NullId, "ok", FALSE, 1, store)

\* const logout = () => { localStorage.removeItem("jwt"); setUser({ userID: null }); }
logout == Result(<<>>, NullId, "ok", FALSE, 1, <<>>)

\* The comparison without the conversion to milliseconds.
NotExpired_Seconds(decodedToken, t) == decodedToken.exp > t

\* The comparison that lets a credential through at its expiry instant.
NotExpired_OrEqual(decodedToken, t) == decodedToken.exp * MillisPerSecond >= t

\* decodedToken.exp * 1000 > Date.now()
NotExpired(decodedToken, t) == decodedToken.exp * MillisPerSecond > t

\* validateAuth that reports an expired credential without purging it.
validateAuth_KeepsExpired ==
  LET jwt == store
  IN  IF jwt # <<>>
      THEN LET decodedToken == jwtDecode(jwt[1])
           IN  IF ~decodedToken.ok
               THEN Result(store, user, "throw", FALSE, 0, <<>>)
               ELSE IF decodedToken.exp * MillisPerSecond > now
                    THEN Result(store, decodedToken.sub, "ok", TRUE, 1, store)
                    ELSE Result(store, user, "ok", FALSE, 0, <<>>)
      ELSE Result(store, user, "ok", FALSE, 0, <<>>)

\* validateAuth that resets the user on expiry but leaves the item stored.
validateAuth_NoRemove ==
  LET jwt == store
  IN  IF jwt # <<>>
      THEN LET decodedToken == jwtDecode(jwt[1])
           IN  IF ~decodedToken.ok
               THEN Result(store, user, "throw", FALSE, 0, <<>>)
               ELSE IF decodedToken.exp * MillisPerSecond > now
                    THEN Result(store, decodedToken.sub, "ok", TRUE, 1, store)
                    ELSE Result(store, NullId, "ok", FALSE, 1, store)
      ELSE Result(store, user, "ok", FALSE, 0, <<>>)

\* validateAuth that finds the credential valid and leaves `user` alone.
validateAuth_NoRefresh ==
  LET jwt == store
  IN  IF jwt # <<>>
      THEN LET decodedToken == jwtDecode(jwt[1])
           IN  IF ~decodedToken.ok
               THEN Result(store, user, "throw", FALSE, 0, <<>>)
               ELSE IF decodedToken.exp * MillisPerSecond > now
                    THEN Result(store, user, "ok", TRUE, 0, <<>>)
                    ELSE Result(<<>>, NullId, "ok", FALSE, 1, <<>>)
      ELSE Result(store, user, "ok", FALSE, 0, <<>>)

\* const validateAuth = async () => { ... }: it holds no await, so the whole
\* body runs in one turn; a throw of jwtDecode rejects the promise it returns.
validateAuth ==
  LET jwt == store
  IN  IF jwt # <<>>
      THEN LET decodedToken == jwtDecode(jwt[1])
           IN  IF ~decodedToken.ok
               THEN Result(store, user, "throw", FALSE, 0, <<>>)
               ELSE IF NotExpired(decodedToken, now)
                    THEN Result(store, decodedToken.sub, "ok", TRUE, 1, store)
                    ELSE Result(<<>>, NullId, "ok", FALSE, 1, <<>>)
      ELSE Result(store, user, "ok", FALSE, 0, <<>>)

\* The timeout callback of the settling mount effect, acting on the `jwt`
\* the effect read before the delay. It removes whatever is stored when the
\* credential it read has expired, and does not touch `user` then.
settle ==
  LET jwt == captured
  IN  IF jwt # <<>>
      THEN LET decodedToken == jwtDecode(jwt[1])
           IN  IF ~decodedToken.ok
               THEN Result(store, user, "throw", FALSE, 0, <<>>)
               ELSE IF NotExpired(decodedToken, now)
                    THEN Result(store, decodedToken.sub, "ok", TRUE, 1, store)
                    ELSE Result(<<>>, user, "ok", FALSE, 0, <<>>)
      ELSE Result(store, user, "ok", FALSE, 0, <<>>)

\* ------------------------------------------------------------- the history
NoOp ==
  [op |-> "none", jwt |-> <<>>, out |-> "ok", ret |-> FALSE, notes |-> 0,
   seen |-> <<>>, pre |-> [store |-> <<>>, user |-> NullId],
   post |-> [store |-> <<>>, user |-> NullId], at |-> 0, slot |-> 0,
   pend |-> {}]

Summary(l) ==
  [op |-> l.op, jwt |-> l.jwt, out |-> l.out, slot |-> l.slot,
   pend |-> l.pend]

\* Apply the result r of operation op (argument arg, called by the form
\* submission `slot`, 0 for a direct call) and note it in the history.
Apply(op, arg, r, slot, pend) ==
  /\ store' = r.store
  /\ user' = r.user
  /\ last' = [op |-> op, jwt |-> arg, out |-> r.out, ret |-> r.ret,
              notes |-> r.notes, seen |-> r.seen,
              pre |-> [store |-> store, user |-> user],
              post |-> [store |-> r.store, user |-> r.user],
              at |-> now, slot |-> slot, pend |-> pend]
  /\ prev' = Summary(last)

NoError == [state |-> FALSE, message |-> ""]

\* Register as first rendered: useState<boolean>(false), nothing pending.
NoReg == [loading |-> FALSE, inflight |-> {}]

\* useState({ loading: true, authenticated: false })
InitialAuthState == [loading |-> TRUE, authenticated |-> FALSE]

\* No RouteGuard is mounted (the route is not "/app").
NoGuard ==
  [mounted |-> FALSE, inst |-> 0, authState |-> InitialAuthState,
   pc |-> "none", ret |-> "none", late |-> FALSE, readStore |-> <<>>,
   readAt |-> 0, view |-> "none", via |-> "route", cred |-> <<>>,
   nav |-> [store |-> <<>>, user |-> NullId]]

\* Pending | Authorized | Unauthorized, read off `authState`.
GuardState(g) ==
  IF g.authState.loading THEN "Pending"
  ELSE IF g.authState.authenticated THEN "Authorized" ELSE "Unauthorized"

\* The render that skips the `authState.loading` branch.
RouteGuardRender_NoLoadingCheck(authState) ==
  IF authState.authenticated THEN "outlet" ELSE "navigate"

\* if (authState.loading) return <Spinner .../>;
\* return authState.authenticated ? <Outlet /> : <Navigate to={"/"} />
RouteGuardRender(authState) ==
  IF authState.loading THEN "spinner"
  ELSE IF authState.authenticated THEN "outlet" ELSE "navigate"

\* checkAuth that lets everybody in.
checkAuthState_AlwaysAuthenticated(ok) ==
  [loading |-> FALSE, authenticated |-> TRUE]

\* if (await validateAuth()) setAuthState({ loading: false, authenticated: true })
\* else setAuthState({ loading: false, authenticated: false })
checkAuthState(ok) ==
  IF ok THEN [loading |-> FALSE, authenticated |-> TRUE]
  ELSE [loading |-> FALSE, authenticated |-> FALSE]

\* The effect given no dependency array: it runs after every render.
GuardEffectDue_EveryRender(g) == g.mounted /\ g.pc \in {"mount", "done"}

\* useEffect(() => { checkAuth(); }, []): once, after the first render.
GuardEffectDue(g) == g.mounted /\ g.pc = "mount"

\* A RouteGuard that has just rendered for the first time.
MountedGuard(inst) ==
  [mounted |-> TRUE, inst |-> inst, authState |-> InitialAuthState,
   pc |-> "mount", ret |-> "none", late |-> FALSE, readStore |-> <<>>,
   readAt |-> 0, view |-> RouteGuardRender(InitialAuthState),
   via |-> "route", cred |-> <<>>,
   nav |-> [store |-> <<>>, user |-> NullId]]

\* A JavaScript string in a condition: every string but "" is truthy.
Truthy(str) == str # ""

\* aria-live={colour === "error" || "warning" ? "assertive" : "polite"}
ariaLive(c) ==
  IF c = "error" \/ Truthy("warning") THEN "assertive" ELSE "polite"

\* A clearTimeout that cancels nothing.
ClearTimeout_Noop(t, h) == t.timers

\* The timers of t without the one with handle h: clearTimeout(h).
ClearTimeout(t, h) == {x \in t.timers : x.id # h}

\* A handle no pending timer has (0 when MaxTimers are pending).
FreshTimer(t) ==
  LET free == {i \in TimerIds : \A x \in t.timers : x.id # i}
  IN  IF free = {} THEN 0 ELSE CHOOSE i \in free : \A j \in free : i <= j

\* The effect whose cleanup is never returned.
ToastEffect_NoCleanup(t, before, after, at) ==
  IF before = after THEN t
  ELSE IF after /\ AutoCloseDuration # 0
       THEN LET id == FreshTimer(t)
            IN  [t EXCEPT
                   !.timers = t.timers \cup
                              {[id |-> id, due |-> at + AutoCloseDuration]},
                   !.handle = id]
       ELSE [t EXCEPT !.handle = 0]

\* useEffect(() => { if (show && autoCloseDuration) { const timer =
\*   setTimeout(() => onClose(), autoCloseDuration);
\*   return () => clearTimeout(timer); } }, [show])
\* after a render in which `show` went from `before` to `after`: nothing
\* runs when `show` is the same; otherwise the previous run's cleanup, then
\* the effect.
ToastEffect(t, before, after, at) ==
  IF before = after THEN t
  ELSE LET cleaned == [t EXCEPT !.timers = ClearTimeout(t, t.handle)]
       IN  IF after /\ AutoCloseDuration # 0
           THEN LET id == FreshTimer(cleaned)
                IN  [cleaned EXCEPT
                       !.timers = cleaned.timers \cup
                                  {[id |-> id, due |-> at + AutoCloseDuration]},
                       !.handle = id]
           ELSE [cleaned EXCEPT !.handle = 0]

\* A Toast that sets a timer at every setError({ state: true, message }),
\* the one of a notification still visible left running.
ShownToast_AlwaysSchedules(t, before, at) ==
  [ToastEffect_NoCleanup(t, FALSE, TRUE, at) EXCEPT
     !.hides = 0, !.cause = "none", !.msgAt = at, !.aria = ariaLive(colour)]

\* The Toast after its parent called setError({ state: true, message }).
ShownToast(t, before, at) ==
  [ToastEffect(t, before, TRUE, at) EXCEPT
     !.hides = 0, !.cause = "none", !.msgAt = at, !.aria = ariaLive(colour)]

\* The Toast after onClose(), called by `cause` ("button" or "timer").
ClosedToast(t, before, at, cause) ==
  [ToastEffect(t, before, FALSE, at) EXCEPT
     !.hides = IF t.hides < 2 THEN t.hides + 1 ELSE 2,
     !.cause = cause, !.hidAt = at, !.aria = "none"]

\* The Toast after its parent called setError({ state: false, message: "" })
\* on its own account (no onClose).
ResetToast(t, before, at) ==
  [ToastEffect(t, before, FALSE, at) EXCEPT !.aria = "none"]

\* Unmounting that leaves the effect's timer running.
UnmountedToast_NoCleanup(t) ==
  [t EXCEPT !.mounted = FALSE, !.handle = 0, !.aria = "none"]

\* The Toast of a form that is not rendered, its effect cleaned up.
UnmountedToast(t) ==
  [t EXCEPT !.mounted = FALSE,
            !.timers = ClearTimeout(t, t.handle),
            !.handle = 0, !.aria = "none",
            !.torn = \E x \in t.timers : x.id = t.handle]

\* The Toast of a freshly rendered form: mounted, hidden, no timer.
NoToast ==
  [mounted |-> TRUE, timers |-> {}, handle |-> 0, hides |-> 0,
   cause |-> "none", hidAt |-> 0, msgAt |-> 0, aria |-> "none",
   torn |-> FALSE]

\* ------------------------------------------------------------------- Init
\* A freshly loaded page: localStorage holds whatever an earlier page left
\* there, the provider has rendered once and its mount effect is due.
Init ==
  /\ store \in Slot
  /\ user = NullId
  /\ now = 0
  /\ pc = "mount"
  /\ captured = <<>>
  /\ mountedAt = 0
  /\ loading = FALSE
  /\ inflight = {}
  /\ error = NoError
  /\ last = NoOp
  /\ prev = Summary(NoOp)
  /\ page = "login"
  /\ guard = NoGuard
  /\ colour = "error"
  /\ toast = NoToast
  /\ reg = NoReg

\* The settling provider: its mount effect has read the store and scheduled
\* its timeout.
InitDelay ==
  /\ store \in Slot
  /\ user = NullId
  /\ now = 0
  /\ pc = "settling"
  /\ captured = store
  /\ mountedAt = 0
  /\ loading = TRUE
  /\ inflight = {}
  /\ error = NoError
  /\ last = NoOp
  /\ prev = Summary(NoOp)
  /\ page = "login"
  /\ guard = NoGuard
  /\ colour = "error"
  /\ toast = NoToast
  /\ reg = NoReg

\* The page is loaded on "/" or on "/register"; what is stored, if
\* anything, is a token the server answered with earlier.
InitApp ==
  /\ store \in {<<>>} \cup {<<t>> : t \in Granted}
  /\ user = NullId
  /\ now = 0
  /\ pc = "mount"
  /\ captured = <<>>
  /\ mountedAt = 0
  /\ loading = FALSE
  /\ inflight = {}
  /\ error = NoError
  /\ last = NoOp
  /\ prev = Summary(NoOp)
  /\ page \in {"login", "register"}
  /\ guard = NoGuard
  /\ colour = "error"
  /\ toast = NoToast
  /\ reg = NoReg

\* The page is loaded on "/register" with nothing stored.
InitRegister ==
  /\ store = <<>>
  /\ user = NullId
  /\ now = 0
  /\ pc = "mount"
  /\ captured = <<>>
  /\ mountedAt = 0
  /\ loading = FALSE
  /\ inflight = {}
  /\ error = NoError
  /\ last = NoOp
  /\ prev = Summary(NoOp)
  /\ page = "register"
  /\ guard = NoGuard
  /\ colour = "error"
  /\ toast = NoToast
  /\ reg = NoReg

\* The page is loaded on "/" or on "/app"; on "/app" the RouteGuard has
\* rendered once and the form is not there.
InitGuard ==
  /\ store \in Slot
  /\ user = NullId
  /\ now = 0
  /\ pc = "mount"
  /\ captured = <<>>
  /\ mountedAt = 0
  /\ loading = FALSE
  /\ inflight = {}
  /\ error = NoError
  /\ last = NoOp
  /\ prev = Summary(NoOp)
  /\ page \in {"login", "app"}
  /\ guard = IF page = "app" THEN MountedGuard(1) ELSE NoGuard
  /\ colour = "error"
  /\ toast = IF page = "app" THEN UnmountedToast(NoToast) ELSE NoToast
  /\ reg = NoReg

\* The login form with a Toast of any colour.
InitToast ==
  /\ store \in {<<>>}
  /\ user = NullId
  /\ now = 0
  /\ pc = "mount"
  /\ captured = <<>>
  /\ mountedAt = 0
  /\ loading = FALSE
  /\ inflight = {}
  /\ error = NoError
  /\ last = NoOp
  /\ prev = Summary(NoOp)
  /\ page = "login"
  /\ guard = NoGuard
  /\ colour \in Colours
  /\ toast = NoToast
  /\ reg = NoReg

\* ---------------------------------------------------------------- actions
\* useEffect(() => { checkAuth(); }, []) of the provider with validateAuth.
\* A child's effects run before its parent's: the guard's comes first.
ProviderMount ==
  /\ pc = "mount"
  /\ ~GuardEffectDue(guard)
  /\ Apply("validate", <<>>, validateAuth, 0, inflight)
  /\ pc' = "idle"
  /\ UNCHANGED <<now, captured, mountedAt, loading, inflight, error,
                 page, guard, colour, reg, toast>>

CallLogin(jwt) ==
  /\ pc # "mount"
  /\ Apply("login", <<jwt>>, login(jwt), 0, inflight)
  /\ UNCHANGED <<now, pc, captured, mountedAt, loading, inflight, error,
                 page, guard, colour, reg, toast>>

CallLogout ==
  /\ pc # "mount"
  /\ Apply("logout", <<>>, logout, 0, inflight)
  /\ UNCHANGED <<now, pc, captured, mountedAt, loading, inflight, error,
                 page, guard, colour, reg, toast>>

CallValidateAuth ==
  /\ pc = "idle"
  /\ Apply("validate", <<>>, validateAuth, 0, inflight)
  /\ UNCHANGED <<now, pc, captured, mountedAt, loading, inflight, error,
                 page, guard, colour, reg, toast>>

\* The clock moves on.
Tick ==
  /\ \E t \in Instants : t > now /\ now' = t
  /\ UNCHANGED <<store, user, pc, captured, mountedAt, loading, inflight,
                 error, last, prev,
                 page, guard, colour, reg, toast>>

\* The page is reloaded: React state is gone, localStorage stays.
Reload ==
  /\ pc = "idle"
  /\ user' = NullId
  /\ pc' = "mount"
  /\ inflight' = {}
  /\ error' = NoError
  /\ last' = NoOp
  /\ prev' = Summary(NoOp)
  /\ guard' = IF page = "app" THEN MountedGuard(1 - guard.inst) ELSE NoGuard
  /\ toast' = IF page = "app" THEN UnmountedToast(NoToast) ELSE NoToast
  /\ reg' = NoReg
  /\ UNCHANGED <<store, now, captured, mountedAt, loading, page, colour>>

\* Login.handleSubmit up to `await axios.post(...)`.
SubmitStart(s) ==
  /\ pc = "idle"
  /\ page = "login"
  /\ {s, -s} \cap (inflight \cup reg.inflight) = {}
  /\ inflight' = inflight \cup {s}
  /\ UNCHANGED <<store, user, now, pc, captured, mountedAt, loading, error,
                 last, prev, page, guard, colour, reg, toast>>

\* axios.post resolved with { access_token }: login(data.access_token). A
\* throw of login lands in the catch, is no AxiosError, and is dropped.
SubmitOk(s, jwt) ==
  /\ s \in inflight
  /\ inflight' = inflight \ {s}
  /\ Apply("login", <<jwt>>, login(jwt), IF s > 0 THEN s ELSE -s,
           inflight \ {s})
  /\ UNCHANGED <<now, pc, captured, mountedAt, loading, error,
                 page, guard, colour, reg, toast>>

\* The catch that swallows the failure of axios.post.
SubmitFail_Silent(s, m) ==
  /\ s \in inflight
  /\ inflight' = inflight \ {s}
  /\ UNCHANGED <<store, user, now, pc, captured, mountedAt, loading, error,
                 last, prev, page, guard, colour, toast, reg>>

\* axios.post rejected: setError({ state: true, message }), and the Toast
\* renders with show = true. The setError of a form that has been unmounted
\* since does nothing.
SubmitFail(s, m) ==
  /\ s \in inflight
  /\ inflight' = inflight \ {s}
  /\ IF s > 0
     THEN /\ error' = [state |-> TRUE, message |-> m]
          /\ toast' = ShownToast(toast, error.state, now)
     ELSE UNCHANGED <<error, toast>>
  /\ UNCHANGED <<store, user, now, pc, captured, mountedAt, loading, last,
                 prev, page, guard, colour, reg>>

\* The Toast's close button: onClose() is setError({ state: false,
\* message: "" }), and the Toast renders with show = false.
ToastClose ==
  /\ toast.mounted
  /\ error.state
  /\ error' = NoError
  /\ toast' = ClosedToast(toast, error.state, now, "button")
  /\ UNCHANGED <<store, user, now, pc, captured, mountedAt, loading,
                 inflight, last, prev, page, guard, colour, reg>>

\* An auto-close timer is due: its callback calls onClose().
ToastTimerFire ==
  \E x \in toast.timers :
    /\ now >= x.due
    /\ LET fired == [toast EXCEPT !.timers = toast.timers \ {x}]
       IN  IF toast.mounted
           THEN /\ error' = NoError
                /\ toast' = ClosedToast(fired, error.state, now, "timer")
           ELSE /\ error' = error
                /\ toast' = [fired EXCEPT
                                !.hides = IF @ < 2 THEN @ + 1 ELSE 2,
                                !.cause = "timer", !.hidAt = now]
    /\ UNCHANGED <<store, user, now, pc, captured, mountedAt, loading,
                   inflight, last, prev, page, guard, colour, reg>>

\* The clock moves on, not past the instant a pending timer is due at.
ToastTick ==
  /\ \E t \in ToastInstants :
       /\ t > now
       /\ \A x \in toast.timers : t <= x.due
       /\ now' = t
  /\ UNCHANGED <<store, user, pc, captured, mountedAt, loading, inflight,
                 error, last, prev, page, guard, colour, reg, toast>>

\* The settling provider's timeout fires, SettleDelay after it was set.
SettleFire ==
  /\ pc = "settling"
  /\ now >= mountedAt + SettleDelay
  /\ LET r == settle
     IN  /\ Apply("settle", captured, r, 0, inflight)
         /\ loading' = IF r.out = "throw" THEN loading ELSE FALSE
  /\ pc' = "idle"
  /\ UNCHANGED <<now, captured, mountedAt, inflight, error,
                 page, guard, colour, reg, toast>>

\* The page with the settling provider is reloaded.
ReloadDelay ==
  /\ user' = NullId
  /\ pc' = "settling"
  /\ captured' = store
  /\ mountedAt' = now
  /\ loading' = TRUE
  /\ last' = NoOp
  /\ prev' = Summary(NoOp)
  /\ UNCHANGED <<store, now, inflight, error,
                 page, guard, colour, reg, toast>>

\* RouteGuard's mount effect up to `await validateAuth()`.
GuardCheckAuth ==
  /\ GuardEffectDue(guard)
  /\ LET r == validateAuth
     IN  /\ Apply("validate", <<>>, r, 0, inflight)
         /\ guard' = [guard EXCEPT
               !.pc = "awaiting",
               !.ret = IF r.out = "throw" THEN "rejected"
                       ELSE IF r.ret THEN "true" ELSE "false",
               !.readStore = store,
               !.readAt = now]
  /\ UNCHANGED <<now, pc, captured, mountedAt, loading, inflight, error,
                 page, colour, reg, toast>>

\* checkAuth resumes after the await. A rejected promise ends it there; no
\* cleanup of the effect stops it when the guard is gone, so setAuthState is
\* then called for the unmounted instance (`late`).
GuardResume ==
  /\ guard.pc = "awaiting"
  /\ guard' =
       IF guard.ret = "rejected"
       THEN [guard EXCEPT !.pc = "done"]
       ELSE LET next == checkAuthState(guard.ret = "true")
            IN  [guard EXCEPT
                   !.pc = "done",
                   !.authState = next,
                   !.late = ~guard.mounted,
                   !.view = IF guard.mounted THEN RouteGuardRender(next)
                            ELSE "none"]
  /\ UNCHANGED <<store, user, now, pc, captured, mountedAt, loading,
                 inflight, error, last, prev, page, colour, reg, toast>>

\* <Navigate to={"/"} />: the router leaves "/app" for the login form.
GuardRedirect ==
  /\ guard.mounted
  /\ guard.view = "navigate"
  /\ page' = "login"
  /\ guard' = [guard EXCEPT !.mounted = FALSE, !.view = "none"]
  /\ error' = NoError
  /\ toast' = NoToast
  /\ UNCHANGED <<store, user, now, pc, captured, mountedAt, loading,
                 inflight, last, prev, colour, reg>>

\* The router changes route on a history navigation (back, forward).
HistoryNav ==
  /\ pc = "idle"
  /\ \/ /\ page = "login"
        /\ page' = "app"
        /\ guard' = MountedGuard(1 - guard.inst)
        /\ toast' = UnmountedToast(toast)
     \/ /\ page = "app"
        /\ page' = "login"
        /\ guard' = [guard EXCEPT !.mounted = FALSE, !.view = "none"]
        /\ toast' = NoToast
  /\ error' = NoError
  /\ inflight' = Orphaned(inflight)
  /\ UNCHANGED <<store, user, now, pc, captured, mountedAt, loading,
                 last, prev, colour, reg>>

\* The guard RouteGuard mounts as when Register navigated for the token jwt,
\* with the store and the user as they are at the navigate("/app").
GuardAfterRegister(inst, jwt, st, usr) ==
  [MountedGuard(inst) EXCEPT !.via = "register", !.cred = <<jwt>>,
                             !.nav = [store |-> st, user |-> usr]]

\* Register.handleSubmit up to `await axios.post(...)`: setError({ state:
\* false, message: "" }); setLoading(true).
RegisterStart(s) ==
  /\ pc = "idle"
  /\ page = "register"
  /\ {s, -s} \cap (inflight \cup reg.inflight) = {}
  /\ error' = NoError
  /\ toast' = ResetToast(toast, error.state, now)
  /\ reg' = [loading |-> TRUE, inflight |-> reg.inflight \cup {s}]
  /\ UNCHANGED <<store, user, now, pc, captured, mountedAt, loading,
                 inflight, last, prev, page, guard, colour>>

\* Register's handler that navigates without having called login.
RegisterOk_NoLogin(s, jwt) ==
  /\ s \in reg.inflight
  /\ page # "app"
  /\ page' = "app"
  /\ guard' = GuardAfterRegister(1 - guard.inst, jwt, store, user)
  /\ toast' = UnmountedToast(toast)
  /\ error' = NoError
  /\ inflight' = Orphaned(inflight)
  /\ reg' = [loading |-> FALSE, inflight |-> Orphaned(reg.inflight \ {s})]
  /\ UNCHANGED <<store, user, now, pc, captured, mountedAt, loading,
                 last, prev, colour>>

\* axios.post resolved with { access_token }: login(data.access_token);
\* setLoading(false); navigate("/app"). A throw of login skips the
\* navigation and lands in the catch: setLoading(false), and nothing else
\* as it is no AxiosError. `navigate` also works for a Register that has
\* been unmounted since; its setLoading then does nothing.
RegisterOk(s, jwt) ==
  /\ s \in reg.inflight
  /\ LET r == login(jwt)
         left == reg.inflight \ {s}
     IN  /\ Apply("login", <<jwt>>, r, MaxSlots + (IF s > 0 THEN s ELSE -s),
                  inflight)
         /\ IF r.out = "ok" /\ page # "app"
            THEN /\ page' = "app"
                 /\ guard' = GuardAfterRegister(1 - guard.inst, jwt,
                                                r.store, r.user)
                 /\ toast' = UnmountedToast(toast)
                 /\ error' = NoError
                 /\ inflight' = Orphaned(inflight)
                 /\ reg' = [loading |-> FALSE, inflight |-> Orphaned(left)]
            ELSE /\ reg' = [loading |-> IF s > 0 THEN FALSE ELSE reg.loading,
                            inflight |-> left]
                 /\ UNCHANGED <<page, guard, toast, error, inflight>>
  /\ UNCHANGED <<now, pc, captured, mountedAt, loading, colour>>

\* The catch of Register that also clears localStorage.
RegisterFail_Purges(s, m) ==
  /\ s \in reg.inflight
  /\ store' = <<>>
  /\ IF s > 0
     THEN /\ error' = [state |-> TRUE, message |-> m]
          /\ toast' = ShownToast(toast, error.state, now)
          /\ reg' = [loading |-> FALSE, inflight |-> reg.inflight \ {s}]
     ELSE /\ reg' = [reg EXCEPT !.inflight = reg.inflight \ {s}]
          /\ UNCHANGED <<error, toast>>
  /\ UNCHANGED <<user, now, pc, captured, mountedAt, loading,
                 inflight, last, prev, page, guard, colour>>

\* axios.post rejected: setLoading(false); setError({ state: true,
\* message }). Both do nothing for a Register that has been unmounted.
RegisterFail(s, m) ==
  /\ s \in reg.inflight
  /\ IF s > 0
     THEN /\ error' = [state |-> TRUE, message |-> m]
          /\ toast' = ShownToast(toast, error.state, now)
          /\ reg' = [loading |-> FALSE, inflight |-> reg.inflight \ {s}]
     ELSE /\ reg' = [reg EXCEPT !.inflight = reg.inflight \ {s}]
          /\ UNCHANGED <<error, toast>>
  /\ UNCHANGED <<store, user, now, pc, captured, mountedAt, loading,
                 inflight, last, prev, page, guard, colour>>

\* The router goes from "/register" to "/" (the Link of Register) or from
\* "/" to "/register" (history): one form is unmounted, the other rendered.
RegisterNav ==
  /\ pc = "idle"
  /\ \/ /\ page = "register"
        /\ page' = "login"
     \/ /\ page = "login"
        /\ page' = "register"
  /\ error' = NoError
  /\ toast' = NoToast
  /\ inflight' = Orphaned(inflight)
  /\ reg' = [loading |-> FALSE, inflight |-> Orphaned(reg.inflight)]
  /\ UNCHANGED <<store, user, now, pc, captured, mountedAt, loading,
                 last, prev, guard, colour>>

\* The session store on its own: the provider with validateAuth, called
\* directly.
Next ==
  \/ ProviderMount
  \/ \E jwt \in Tokens : CallLogin(jwt)
  \/ CallLogout
  \/ CallValidateAuth
  \/ Tick
  \/ Reload

Spec == Init /\ [][Next]_vars

\* The same, with the mount effect run once it is due: React runs the
\* effects of a committed render.
SpecRestart == Init /\ [][Next]_vars /\ WF_vars(ProviderMount)

\* The login form in front of the session store. No code path of the form
\* or of login reads the clock, so the clock stands still here.
NextForm ==
  \/ ProviderMount
  \/ CallLogout
  \/ CallValidateAuth
  \/ Reload
  \/ \E s \in Slots : SubmitStart(s)
  \/ \E s \in Slots, jwt \in Tokens : SubmitOk(s, jwt)
  \/ \E s \in Slots, m \in Messages : SubmitFail(s, m)
  \/ ToastClose

SpecForm == Init /\ [][NextForm]_vars

\* The route guard over the session store.
NextGuard ==
  \/ ProviderMount
  \/ GuardCheckAuth
  \/ GuardResume
  \/ GuardRedirect
  \/ HistoryNav
  \/ \E jwt \in Tokens : CallLogin(jwt)
  \/ CallLogout
  \/ Tick
  \/ Reload

SpecGuard == InitGuard /\ [][NextGuard]_vars

\* The Toast of the login form, its timer and its teardown.
NextToast ==
  \/ ProviderMount
  \/ \E s \in Slots : SubmitStart(s)
  \/ \E s \in AllSlots, m \in Messages : SubmitFail(s, m)
  \/ ToastClose
  \/ ToastTimerFire
  \/ ToastTick
  \/ HistoryNav

SpecToast == InitToast /\ [][NextToast]_vars

\* The two forms in front of the session store, and the router between
\* them; the guard is mounted by the router and left at that.
NextBothForms ==
  \/ ProviderMount
  \/ \E s \in AppSlots : SubmitStart(s)
  \/ \E s \in AllAppSlots, jwt \in Granted : SubmitOk(s, jwt)
  \/ \E s \in AllAppSlots, m \in Messages : SubmitFail(s, m)
  \/ \E s \in AppSlots : RegisterStart(s)
  \/ \E s \in AllAppSlots, jwt \in Granted : RegisterOk(s, jwt)
  \/ \E s \in AllAppSlots, m \in Messages : RegisterFail(s, m)
  \/ ToastClose
  \/ RegisterNav
  \/ HistoryNav

SpecBothForms == InitApp /\ [][NextBothForms]_vars

\* The whole page: both forms, the guard, the Toast's button, the router.
\* The clock stands still: the forms and the router do not read it.
NextApp ==
  \/ ProviderMount
  \/ \E s \in AppSlots : SubmitStart(s)
  \/ \E s \in AllAppSlots, jwt \in Granted : SubmitOk(s, jwt)
  \/ \E s \in AllAppSlots, m \in Messages : SubmitFail(s, m)
  \/ \E s \in AppSlots : RegisterStart(s)
  \/ \E s \in AllAppSlots, jwt \in Granted : RegisterOk(s, jwt)
  \/ \E s \in AllAppSlots, m \in Messages : RegisterFail(s, m)
  \/ ToastClose
  \/ RegisterNav
  \/ HistoryNav
  \/ GuardCheckAuth
  \/ GuardResume
  \/ GuardRedirect
  \/ Reload

SpecApp == InitApp /\ [][NextApp]_vars

\* Register, the guard its navigation mounts, and the clock.
NextRegister ==
  \/ ProviderMount
  \/ \E s \in AppSlots : RegisterStart(s)
  \/ \E s \in AllAppSlots, jwt \in Granted : RegisterOk(s, jwt)
  \/ \E s \in AllAppSlots, m \in Messages : RegisterFail(s, m)
  \/ RegisterNav
  \/ HistoryNav
  \/ GuardCheckAuth
  \/ GuardResume
  \/ GuardRedirect
  \/ Tick

SpecRegister == InitRegister /\ [][NextRegister]_vars

\* The settling provider.
NextDelay ==
  \/ SettleFire
  \/ \E jwt \in Tokens : CallLogin(jwt)
  \/ CallLogout
  \/ Tick
  \/ ReloadDelay

SpecDelay == InitDelay /\ [][NextDelay]_vars

\* ============================================================== the claims
\* What the specification calls a credential's Claims, read off the token
\* itself (not through the codec of the code).
WellFormed(t) == t \in GoodTokens
Subject(t) == t.sub
ExpiresAtEpochMillis(t) == t.exp * 1000
\* The slot holds a well-formed credential that has expired at time t.
HoldsExpired(slot, t) ==
  /\ slot # <<>>
  /\ WellFormed(slot[1])
  /\ ExpiresAtEpochMillis(slot[1]) <= t
\* The slot holds a well-formed credential that is still valid at time t.
HoldsValid(slot, t) ==
  /\ slot # <<>>
  /\ WellFormed(slot[1])
  /\ ExpiresAtEpochMillis(slot[1]) > t
SessionOps == {"login", "logout", "validate"}

\* C1: a login with a credential that cannot be decoded fails and leaves
\* the store and the Session exactly as they were before the call.
C1_MalformedLoginLeavesState ==
  (last.op = "login" /\ ~WellFormed(last.jwt[1]))
    => (last.out = "throw" /\ last.post = last.pre)

\* C2: a validate that finds a stored credential it cannot decode purges
\* it: it returns no subject, the store is empty, the Session is null, and
\* no error reaches the caller.
C2_ValidatePurgesUndecodable ==
  (last.op = "validate" /\ last.pre.store # <<>>
     /\ ~WellFormed(last.pre.store[1]))
    => /\ last.out = "ok"
       /\ last.ret = FALSE
       /\ last.post.store = <<>>
       /\ last.post.user = NullId

\* C3 (as claimed): in no reachable state does the store hold an expired
\* credential while the Session's subjectId is non-null.
C3_NeverExpiredWithSession ==
  ~(HoldsExpired(store, now) /\ user # NullId)

\* C3 (amended): in the state a validate leaves, for as long as the clock
\* has not moved and no other session operation has run, the store does
\* not hold an expired credential while the Session's subjectId is
\* non-null.
C3_NoExpiredWithSessionAfterValidate ==
  (last.op = "validate" /\ last.at = now)
    => ~(HoldsExpired(store, now) /\ user # NullId)

\* A validate met an expired credential beside a non-null Session.
C3_Witness ==
  /\ last.op = "validate"
  /\ last.at = now
  /\ HoldsExpired(last.pre.store, last.at)
  /\ last.pre.user # NullId

\* C4: login(c) with a decodable c followed by validate() before c's
\* expiry returns c's subject, leaves the Session with it and c stored.
C4_LoginThenValidate ==
  (last.op = "validate" /\ prev.op = "login" /\ WellFormed(prev.jwt[1])
     /\ ExpiresAtEpochMillis(prev.jwt[1]) > last.at)
    => /\ last.out = "ok"
       /\ last.ret = TRUE
       /\ last.post.user = Subject(prev.jwt[1])
       /\ last.post.store = prev.jwt
       /\ (last.at = now => user = Subject(prev.jwt[1]) /\ store = prev.jwt)

\* login(c), then the clock moved on without passing c's expiry, then
\* validate().
C4_Witness ==
  /\ last.op = "validate"
  /\ prev.op = "login"
  /\ WellFormed(prev.jwt[1])
  /\ ExpiresAtEpochMillis(prev.jwt[1]) > last.at
  /\ last.at > 0

\* C5: a validate that finds a stored decodable credential whose expiry is
\* at or before the clock reading returns no subject, leaves the Session
\* null and the store without the credential.
C5_ValidatePurgesExpired ==
  (last.op = "validate" /\ HoldsExpired(last.pre.store, last.at))
    => /\ last.out = "ok"
       /\ last.ret = FALSE
       /\ last.post.user = NullId
       /\ last.post.store = <<>>

\* The page was loaded with an expired credential in the store and the
\* mount effect validated it.
C5_Witness ==
  /\ last.op = "validate"
  /\ prev.op = "none"
  /\ HoldsExpired(last.pre.store, last.at)
  /\ store = <<>>

\* C6: the validation that resumes after the settling delay never removes
\* a still-valid credential that a login stored during the delay.
C6_SettleKeepsLaterLogin ==
  (last.op = "settle" /\ prev.op = "login" /\ last.pre.store = prev.jwt
     /\ HoldsValid(prev.jwt, last.at))
    => last.post.store = prev.jwt

\* C7: every session operation that changes the Session notifies once, and
\* a validate that finds a still-valid credential of the current subject
\* does not notify.
C7_NotifyOnlyOnChange ==
  /\ (last.op \in SessionOps /\ last.post.user # last.pre.user)
       => last.notes = 1
  /\ (last.op = "validate" /\ HoldsValid(last.pre.store, last.at)
        /\ Subject(last.pre.store[1]) = last.pre.user)
       => last.notes = 0

\* C8: when login, logout or validate notifies, the store already holds
\* what the operation leaves in it.
C8_NotifyAfterWrite ==
  (last.op \in SessionOps /\ last.notes > 0) => last.seen = last.post.store

\* A login that replaced the stored credential and notified.
C8_Witness ==
  /\ last.op = "login"
  /\ last.notes = 1
  /\ last.pre.store # <<>>
  /\ last.pre.store # last.post.store

\* C9: logout leaves the store empty and the Session null without an
\* error, and a second logout right after it changes nothing.
C9_LogoutIdempotent ==
  /\ last.op = "logout"
       => /\ last.out = "ok"
          /\ last.post.store = <<>>
          /\ last.post.user = NullId
          /\ store = <<>>
          /\ user = NullId
  /\ (last.op = "logout" /\ prev.op = "logout") => last.post = last.pre

\* Two logouts in a row.
C9_Witness ==
  /\ last.op = "logout"
  /\ prev.op = "logout"

\* C10: after a login with a decodable credential the store holds exactly
\* that credential and the Session its subject, whatever was stored and
\* whichever login ran before.
C10_LastLoginWins ==
  (last.op = "login" /\ WellFormed(last.jwt[1]))
    => /\ last.out = "ok"
       /\ last.post.store = last.jwt
       /\ last.post.user = Subject(last.jwt[1])
       /\ store = last.jwt
       /\ user = Subject(last.jwt[1])

\* Two submissions were in flight together; both logged in, one after the
\* other, with different credentials.
C10_Witness ==
  /\ last.op = "login"
  /\ prev.op = "login"
  /\ last.slot # 0
  /\ prev.slot # 0
  /\ last.slot \in prev.pend
  /\ WellFormed(last.jwt[1])
  /\ WellFormed(prev.jwt[1])
  /\ last.jwt # prev.jwt

\* C11: a guard instance starts Pending, and once it has resolved to
\* Authorized or Unauthorized it keeps that state for as long as it stays
\* mounted.
C11_GuardResolvesOnce ==
  [][/\ (guard'.mounted /\ (~guard.mounted \/ guard'.inst # guard.inst))
          => GuardState(guard') = "Pending"
     /\ (guard.mounted /\ guard'.mounted /\ guard'.inst = guard.inst
           /\ GuardState(guard) # "Pending")
          => GuardState(guard') = GuardState(guard)]_vars

\* The guard resolved to Authorized and is still mounted and Authorized
\* after the credential is gone or has expired.
C11_Witness ==
  /\ guard.mounted
  /\ GuardState(guard) = "Authorized"
  /\ (store = <<>> \/ HoldsExpired(store, now))
  /\ last.op \in {"logout", "validate"}

\* C12: the guard is Authorized exactly when the validate() it called on
\* mount returned a subject: with an empty store it resolves to
\* Unauthorized, with a stored valid credential to Authorized, and it is
\* never Authorized otherwise.
C12_GuardFollowsValidate ==
  /\ GuardState(guard) = "Authorized" => (guard.pc = "done" /\ guard.ret = "true")
  /\ (guard.pc = "done" /\ guard.ret # "rejected")
       => /\ GuardState(guard) # "Pending"
          /\ guard.ret = "true" <=> GuardState(guard) = "Authorized"
          /\ guard.readStore = <<>> => GuardState(guard) = "Unauthorized"
          /\ HoldsValid(guard.readStore, guard.readAt)
               => GuardState(guard) = "Authorized"
          /\ HoldsExpired(guard.readStore, guard.readAt)
               => GuardState(guard) = "Unauthorized"

\* A guard mounted over a stored valid credential has resolved.
C12_Witness ==
  /\ guard.mounted
  /\ guard.pc = "done"
  /\ HoldsValid(guard.readStore, guard.readAt)
  /\ GuardState(guard) = "Authorized"

\* C13: a mounted guard that is Pending renders the waiting indicator, and
\* neither the protected subtree nor the redirect.
C13_PendingRendersSpinner ==
  /\ (guard.mounted /\ GuardState(guard) = "Pending") => guard.view = "spinner"
  /\ guard.view \in {"outlet", "navigate"} => guard.pc = "done"

\* The guard has called validate() and waits for it.
C13_Witness ==
  /\ guard.mounted
  /\ guard.pc = "awaiting"
  /\ GuardState(guard) = "Pending"

C15_ReplacementGetsOwnTimer ==
  /\ (toast.mounted /\ error.state) =>
        /\ toast.timers # {}
        /\ \A x \in toast.timers : x.due = toast.msgAt + AutoCloseDuration
  /\ toast.cause = "timer" => toast.hidAt >= toast.msgAt + AutoCloseDuration

\* C16: every shown notification is hidden exactly once, by the timer or by
\* the close button, whichever comes first; after the hide no callback is
\* left that could hide it again.
C16_HiddenOnce ==
  /\ toast.hides <= 1
  /\ toast.hides = 1 =>
        /\ ~error.state
        /\ toast.cause \in {"timer", "button"}
        /\ toast.timers = {}

\* A notification the timer hid, once, after one had been closed by hand
\* earlier or not.
C16_Witness ==
  /\ toast.mounted
  /\ toast.cause = "timer"
  /\ toast.hides = 1
  /\ toast.hidAt = toast.msgAt + AutoCloseDuration

\* C17: close() leaves the notification hidden with no timer, and a hidden
\* notification never has a pending timer.
C17_HiddenHasNoTimer ==
  /\ (toast.mounted /\ ~error.state) => (toast.timers = {} /\ toast.handle = 0)
  /\ (toast.mounted /\ toast.cause = "button") =>
        (~error.state /\ toast.timers = {} /\ toast.aria = "none")

\* The close button was used while the timer of the notification was still
\* running.
C17_Witness ==
  /\ toast.mounted
  /\ toast.cause = "button"
  /\ ~error.state
  /\ toast.hidAt < toast.msgAt + AutoCloseDuration
  /\ toast.hidAt > toast.msgAt

\* C18: tearing the notification down cancels its timer: a Toast that is
\* not rendered has no pending timer, so no callback runs afterwards.
C18_TeardownCancelsTimer ==
  ~toast.mounted => (toast.timers = {} /\ toast.handle = 0)

\* The form was left while its notification was visible and its timer
\* pending, and the moment the timer was due at has passed.
C18_Witness ==
  /\ ~toast.mounted
  /\ toast.torn
  /\ toast.hides = 0
  /\ now >= toast.msgAt + AutoCloseDuration

\* C19: a visible notification is announced assertively for the severities
\* error and warning, politely for success and info.
C19_AriaLiveBySeverity ==
  (toast.mounted /\ error.state) =>
     toast.aria = IF colour \in {"error", "warning"} THEN "assertive"
                  ELSE "polite"

\* C20: when the network call of the login form succeeded and the token it
\* returned cannot be decoded, the failure is shown: the error notification
\* is visible after the submission ended.
C20_UndecodableTokenShown ==
  [][\A s \in Slots, jwt \in BadTokens :
       SubmitOk(s, jwt) => (error'.state /\ toast'.aria # "none")]_vars

C22_OnlySessionOpsWrite ==
  [][/\ store' # store =>
          /\ last'.op \in SessionOps
          /\ last'.at = now
          /\ last'.pre.store = store
          /\ last'.post.store = store'
          /\ prev' = Summary(last)
     /\ (last' = last /\ prev' = prev) => store' = store]_vars

\* Register logged in, and the guard its navigation mounted has validated
\* and resolved, with the credential still stored.
C22_Witness ==
  /\ store # <<>>
  /\ guard.via = "register"
  /\ guard.pc = "done"
  /\ last.op = "validate"
  /\ prev.op = "login"
  /\ prev.slot > MaxSlots

\* C23: validate treats a stored decodable credential as valid exactly when
\* its expiry, converted from seconds to milliseconds, is strictly greater
\* than the clock reading; one whose expiry equals the clock reading is
\* purged and yields no subject.
C23_StrictlyInTheFuture ==
  (last.op = "validate" /\ last.pre.store # <<>>
     /\ WellFormed(last.pre.store[1])) =>
    LET expiresAt == ExpiresAtEpochMillis(last.pre.store[1])
    IN  /\ last.ret = (expiresAt > last.at)
        /\ expiresAt = last.at =>
              /\ last.post.store = <<>>
              /\ last.post.user = NullId

\* A validate ran at the very millisecond the stored credential expires.
C23_Witness ==
  /\ last.op = "validate"
  /\ last.pre.store # <<>>
  /\ WellFormed(last.pre.store[1])
  /\ ExpiresAtEpochMillis(last.pre.store[1]) = last.at
  /\ last.pre.user # NullId

\* C24: after a restart (Session null, store kept) the validation run on
\* provider mount rebuilds the Session from the stored credential: a stored
\* decodable credential leads to a state where, if it had not expired when
\* validated, the Session has its subject and it is still stored, and if it
\* had, the store is empty and the Session null.
C24_RebuiltOnRestart ==
  \A t \in GoodTokens :
    (pc = "mount" /\ user = NullId /\ store = <<t>>) ~>
      /\ pc = "idle"
      /\ last.op = "validate"
      /\ last.pre.store = <<t>>
      /\ ExpiresAtEpochMillis(t) > last.at =>
            (user = Subject(t) /\ store = <<t>>)
      /\ ExpiresAtEpochMillis(t) <= last.at =>
            (user = NullId /\ store = <<>>)

\* The page was reloaded some time after the start with a credential that
\* is still valid, and the mount effect has rebuilt the Session from it.
C24_Witness ==
  /\ pc = "idle"
  /\ last.op = "validate"
  /\ prev.op = "none"
  /\ last.at > 0
  /\ HoldsValid(last.pre.store, last.at)
  /\ last.pre.user = NullId
  /\ user = Subject(store[1])

\* C25: in every state reached by logins (failing ones included), logouts
\* and validates, a non-null Session subjectId comes with a stored decodable
\* credential whose subject it is.
C25_SessionMatchesStore ==
  user # NullId =>
    /\ store # <<>>
    /\ WellFormed(store[1])
    /\ Subject(store[1]) = user

\* C26: a mounted guard whose check of the stored credential has run to its
\* end has left Pending, whatever the store held when it was mounted.
C26_CheckedGuardLeftPending ==
  (guard.mounted /\ guard.pc = "done") => GuardState(guard) # "Pending"

\* C27: on a successful registration the navigation to the protected area
\* is requested only after login has stored the credential and set the
\* Session (and not at all when login fails); the guard mounted by that
\* navigation, when no other session operation came in between, reads that
\* credential and, if it has not expired, resolves to Authorized.
C27_NavigateAfterLogin ==
  guard.via = "register" =>
    /\ guard.nav = [store |-> guard.cred, user |-> Subject(guard.cred[1])]
    /\ WellFormed(guard.cred[1])
    /\ (guard.pc \in {"awaiting", "done"} /\ last.op = "validate"
          /\ prev.op = "login" /\ prev.jwt = guard.cred) =>
         guard.readStore = guard.cred
    /\ (guard.pc \in {"awaiting", "done"} /\ guard.readStore = guard.cred
          /\ ExpiresAtEpochMillis(guard.cred[1]) > guard.readAt) =>
         /\ guard.ret = "true"
         /\ (guard.mounted /\ guard.pc = "done") =>
               GuardState(guard) = "Authorized"

\* The guard mounted by a registration's navigation read the credential
\* just registered, some time after the start, and let the user in.
C27_Witness ==
  /\ guard.mounted
  /\ guard.via = "register"
  /\ guard.readStore = guard.cred
  /\ guard.readAt > 0
  /\ GuardState(guard) = "Authorized"
  /\ user = Subject(guard.cred[1])

\* C28: one notification instance has at most one auto-dismiss timer
\* pending at any time, over any sequence of show, replace, close, timer
\* firing and teardown; the pending one is the one its effect holds.
C28_AtMostOneTimer ==
  /\ Cardinality(toast.timers) <= 1
  /\ \A x \in toast.timers : x.id = toast.handle

\* A notification that replaced a visible one runs on one timer, the one
\* set for the notification it replaced.
C28_Witness ==
  /\ toast.mounted
  /\ error.state
  /\ Cardinality(toast.timers) = 1
  /\ \E x \in toast.timers : x.due < toast.msgAt + AutoCloseDuration

====
